---- MODULE Spec2Model ----
(***************************************************************************)
(* Long-audio transcription pipeline of biliSummaryCLI:                    *)
(*   core/transcriber.py      Transcriber.transcribe, _transcribe_chunked, *)
(*                            _transcribe_part, load_model                 *)
(*   core/audio_processor.py  AudioProcessor (duration probe, compression, *)
(*                            segmentation)                                *)
(* One job (one call of Transcriber.transcribe) is modelled as a state     *)
(* machine of the calling thread; inside _transcribe_chunked the worker    *)
(* threads of the ThreadPoolExecutor run interleaved with it.              *)
(*                                                                         *)
(* Conventions.  A text is a string.  An error message is a sequence of    *)
(* tokens: wrapping an error (f"prefix: {str(e)}") prepends a token, and   *)
(* a substring test ("input_too_large" in error_str) is a membership test  *)
(* on the tokens.  Durations are counted in tenths of a second.  Progress   *)
(* percentages are integers; the one fractional value,                     *)
(* 85 + completed/total*14, is kept rounded down.                          *)
(***************************************************************************)
EXTENDS Integers, Sequences, FiniteSets, TLC

---------------------------------------------------------------------------
(* Bounds of the model *)

\* most segments the segmenter returns when a whole job is explored
MaxJobChunks == 2
\* most segments the segmenter returns when the dispatcher alone is explored
MaxChunks == 5
\* method calls made on one Transcriber in the lifecycle specification
MaxOps == 6
\* most pieces a failing run of ffmpeg has written before it exits
MaxLeft == 3
\* calls of split_audio made one after the other on the same base name
MaxSplitCalls == 2

---------------------------------------------------------------------------
(* Program constants *)

\* transcriber.py:116   if duration > 298
ChunkThreshold == 298
\* transcriber.py:321   max_workers = 4
MaxWorkers == 4
\* transcriber.py:143   if file_size_mb > 24
UploadLimitMB == 24
\* transcriber.py:142   os.path.getsize(audio_path) / (1024 * 1024)
BytesPerMB == 1048576

\* variant: the retry is sent to the wrong model
RetrySameFamily == "gpt-4o-mini-transcribe"

\* transcriber.py:192,198  the model the single-shot retry falls back to
BaselineModel == "whisper-1"

\* transcriber.py:41
ApiModels == {"gpt-4o-transcribe", "gpt-4o-mini-transcribe", "whisper-1"}
\* transcriber.py:15-18 (one local model stands for the six local names)
LocalModels == {"base"}
ModelNames == LocalModels \cup ApiModels

---------------------------------------------------------------------------
(* Inputs the environment supplies *)

\* results of ffprobe, in tenths of a second: 0 is "unmeasurable"
\* (audio_processor.py:52), then 298.0 s and 298.1 s
Durations == {0, ChunkThreshold * 10, ChunkThreshold * 10 + 1}
\* os.path.getsize results, in bytes: small, exactly 24 MB, one byte more
FileSizes == {BytesPerMB, UploadLimitMB * BytesPerMB, UploadLimitMB * BytesPerMB + 1}
\* str(e) of an exception of the remote client
RemoteErrors == {<<"input_too_large">>, <<"maximum context">>, <<"rate_limit">>,
                 <<"connection error">>}
\* str(e) of an exception of the remote client inside a segment request
SegErrors == {<<"input_too_large">>, <<"rate_limit">>}
\* the exceptions of the local model's transcribe: class and str(e)
LocalErrors ==
    {[cls |-> "RuntimeError", msg |-> <<"NaN">>],
     [cls |-> "RuntimeError", msg |-> <<"out of memory">>],
     [cls |-> "ValueError", msg |-> <<"NaN">>],
     [cls |-> "ValueError", msg |-> <<"bad audio">>]}

NoError == <<>>
None == "None"

---------------------------------------------------------------------------
(* Pure helpers *)

\* `tok in str(e)`
Contains(msg, tok) == \E k \in DOMAIN msg : msg[k] = tok

\* variant: the wrapped error's own message is left out
WrapOpaque(prefix, msg) == <<prefix>>

\* f"{prefix}: {str(e)}"
Wrap(prefix, msg) == <<prefix>> \o msg

\* a or b, on integers
OrElse(a, b) == IF a # 0 THEN a ELSE b

\* getattr(obj, field, default), obj a record
GetAttr(obj, field, default) == IF field \in DOMAIN obj THEN obj[field] ELSE default

\* variant: every model name is taken for a remote one
IsApiModelAlways(name) == TRUE

\* transcriber.py:39-41
IsApiModel(name) == name \in ApiModels

\* variant: only one of the two markers is recognised
TooLargeInputOnly(msg) == Contains(msg, "input_too_large")

\* transcriber.py:186  the error is classified as "content too large"
TooLarge(msg) == Contains(msg, "input_too_large") \/ Contains(msg, "maximum context")

\* variant: the verbose format is asked of every model
ResponseFmtVerbose(name) == "verbose_json"

\* transcriber.py:137
ResponseFmt(name) ==
    IF SubSeq(name, 1, 6) = "gpt-4o" THEN "json" ELSE "verbose_json"

\* the text the remote service recognises in an audio unit with a model
RemoteText(name, unit) == name \o ":" \o unit

\* the response object of a successful remote call: the verbose format
\* carries language and duration, the plain json format a token usage
Response(name, unit, fmt) ==
    IF fmt = "verbose_json"
    THEN [text |-> RemoteText(name, unit), language |-> "zh", duration |-> 1]
    ELSE [text |-> RemoteText(name, unit),
          usage |-> [input_tokens |-> 7, output_tokens |-> 3, total_tokens |-> 10]]

\* transcriber.py:203-207, and 167-172
SingleResult(resp) ==
    [text     |-> resp.text,
     language |-> GetAttr(resp, "language", "auto"),
     duration |-> GetAttr(resp, "duration", 0)]

\* transcriber.py:167-176: the usage is copied when the response has one
PrimaryResult(resp) ==
    IF "usage" \in DOMAIN resp
    THEN [text     |-> resp.text,
          language |-> GetAttr(resp, "language", "auto"),
          duration |-> GetAttr(resp, "duration", 0),
          usage    |-> resp.usage]
    ELSE SingleResult(resp)

---------------------------------------------------------------------------
(* State *)

VARIABLES
    \* the Transcriber object and the job's arguments and environment
    model_name,      \* self.model_name
    api_key,         \* whether self.api_key is set
    file_exists,     \* os.path.exists(audio_path) at entry
    file_size,       \* os.path.getsize(audio_path), bytes
    ffmpeg_ok,       \* whether AudioProcessor() can be constructed
    client,          \* self.client is not None
    model,           \* self.model is not None
    \* the calling thread inside transcribe
    pc,              \* its position
    duration,        \* the measured duration (tenths of a second), -1 while
                     \* not measured
    should_chunk,
    audio_path,      \* the local audio_path: "orig" or "compressed"
    primary_err,     \* str(e) of the failed primary call, for the retry
    log,             \* collaborator calls of the calling thread, in order
    progress,        \* the percentages given to progress_callback, in order
    outcome,         \* "none" | "success" | "failure"
    result,          \* the dict returned on success
    error,           \* str() of the exception raised on failure
    \* inside _transcribe_chunked
    chunk_model,     \* its model_name argument
    chunk_path,      \* its audio_path argument
    total_chunks,    \* len(chunks), -1 before split_audio returned
    files,           \* indices of the segment files that exist on disk
    fut,             \* per segment: its future
    submitted,       \* number of executor.submit calls made
    yielded,         \* the futures as_completed has handed over
    results,         \* the per-index slots
    total_usage,
    completed_count,
    pending,         \* the exception in flight while the pool shuts down
    rm_failed,       \* segment files whose os.remove raised
    reordered,       \* history: some segment was collected after a later one
    \* one call of AudioProcessor.split_audio, seen from inside
    split_call,      \* its arguments, the files ffmpeg wrote, the list returned
    \* one Transcriber with a local model over several calls of its methods
    lc               \* the attribute self.model, the backend loads made so far,
                     \* the number of calls made, the last call and how it ended

inputs == <<model_name, api_key, file_exists, file_size, ffmpeg_ok>>
objv   == <<client, model>>
mainv  == <<duration, should_chunk, audio_path, primary_err>>
outv   == <<outcome, result, error>>
poolv  == <<total_chunks, files, fut, submitted, yielded, results, total_usage,
            completed_count, pending, rm_failed, reordered>>
dispv  == <<chunk_model, chunk_path, poolv>>
vars   == <<inputs, objv, pc, mainv, log, progress, outv, dispv, split_call, lc>>

NoResult == [text |-> "", language |-> None, duration |-> 0]
ZeroUsage == [prompt_tokens |-> 0, completion_tokens |-> 0, total_tokens |-> 0]

\* one entry of log
Call(op, name, unit, fmt, err) ==
    [op |-> op, model |-> name, path |-> unit, fmt |-> fmt, err |-> err]

\* op is "processor", "probe", "compress", "primary", "fallback", "split" or
\* "local"
IsRemote(c) == c.op \in {"primary", "fallback"}
RemoteCalls == SelectSeq(log, IsRemote)

\* no sequence of method calls is being looked into
NoLifecycle == [attr |-> "None", loads |-> 0, calls |-> 0, op |-> "none", ended |-> "none"]

\* no call of split_audio is being looked into
NoSplitCall == [pc |-> "idle", src |-> 0, seg |-> 0, stale |-> {}, written |-> {},
                chunks |-> <<>>, calls |-> 0]

\* audio_processor.py:19-37  AudioProcessor() raised: ffmpeg is missing
ProcessorFailed(unit) == Call("processor", None, unit, None, <<"FFmpeg missing">>)

InitPool ==
    /\ total_chunks = -1
    /\ files = {}
    /\ fut = <<>>
    /\ submitted = 0
    /\ yielded = {}
    /\ results = <<>>
    /\ total_usage = ZeroUsage
    /\ completed_count = 0
    /\ pending = NoError
    /\ rm_failed = {}
    /\ reordered = FALSE

\* transcriber.py:20-37: a fresh Transcriber, and the arguments of one job
Init ==
    /\ model_name \in ModelNames
    /\ api_key \in BOOLEAN
    /\ file_exists \in BOOLEAN
    /\ file_size \in FileSizes
    /\ ffmpeg_ok \in BOOLEAN
    /\ client = FALSE
    /\ model = FALSE
    /\ pc = "start"
    /\ duration = -1
    /\ should_chunk = FALSE
    /\ audio_path = "orig"
    /\ primary_err = NoError
    /\ log = <<>>
    /\ progress = <<>>
    /\ outcome = "none"
    /\ result = NoResult
    /\ error = NoError
    /\ chunk_model = None
    /\ chunk_path = None
    /\ InitPool
    /\ split_call = NoSplitCall
    /\ lc = NoLifecycle

---------------------------------------------------------------------------
(* Terminal steps *)

\* progress_callback(p, ...) for each p of ps, in order
Report(ps) == progress' = progress \o ps

\* return r
Return(r) ==
    /\ pc' = "done"
    /\ outcome' = "success"
    /\ result' = r
    /\ error' = NoError

\* raise an exception whose str() is msg
Raise(msg) ==
    /\ pc' = "done"
    /\ outcome' = "failure"
    /\ result' = NoResult
    /\ error' = msg

\* return self._transcribe_chunked(audio_path, self.model_name, ...)
EnterChunked(name, unit) ==
    /\ pc' = "split"
    /\ chunk_model' = name
    /\ chunk_path' = unit
    /\ UNCHANGED <<outv, poolv>>

---------------------------------------------------------------------------
(* Transcriber.transcribe: the calling thread *)

\* transcriber.py:94-101 with load_model (43-83): the file check, then the
\* client (remote model) or the model handle (local model), then "82"
Begin ==
    /\ pc = "start"
    /\ UNCHANGED <<inputs, split_call, lc, mainv, log, dispv>>
    /\ IF ~file_exists
       THEN /\ Raise(<<"FileNotFoundError">>)
            /\ UNCHANGED <<objv, progress>>
       ELSE IF IsApiModel(model_name)
       THEN IF ~api_key
            THEN /\ Raise(<<"ValueError: API Key">>)
                 /\ UNCHANGED <<objv, progress>>
            ELSE /\ client' = TRUE
                 /\ Report(<<82>>)
                 /\ pc' = "probe"
                 /\ UNCHANGED <<model, outv>>
       ELSE \E loaded \in BOOLEAN :
            IF loaded
            THEN /\ model' = TRUE
                 /\ Report(<<75, 80, 82>>)
                 /\ pc' = "local"
                 /\ UNCHANGED <<client, outv>>
            ELSE /\ Raise(Wrap("load_model failed", <<"whisper.load_model">>))
                 /\ Report(<<75>>)
                 /\ UNCHANGED objv

\* variant: the threshold itself already chunks
ShouldChunkInclusive(d) == d >= ChunkThreshold * 10

\* variant: an audio file whose duration reads as 0 is chunked to be safe
ShouldChunkUnmeasured(d) == d > ChunkThreshold * 10 \/ d <= 0

\* transcriber.py:108-129: the duration probe and the decision to chunk.
\* AudioProcessor() raises when ffmpeg is missing (audio_processor.py:19-37);
\* get_audio_duration itself never raises (39-52).
ShouldChunk(d) == d > ChunkThreshold * 10

Probe ==
    /\ pc = "probe"
    /\ UNCHANGED <<inputs, split_call, lc, objv, audio_path, primary_err>>
    /\ IF ~ffmpeg_ok
       THEN /\ duration' = -1
            /\ should_chunk' = FALSE
            /\ log' = Append(log, ProcessorFailed(audio_path))
       ELSE \E d \in Durations :
            /\ duration' = d
            /\ should_chunk' = ShouldChunk(d)
            /\ log' = Append(log, Call("probe", None, audio_path, None, NoError))
    /\ IF should_chunk'
       THEN /\ Report(<<83>>)
            /\ EnterChunked(model_name, audio_path)
       ELSE /\ pc' = "single"
            /\ UNCHANGED <<progress, outv, dispv>>

\* variant: the retry is made whatever the configured model is
HandleSingleErrorAlwaysRetry(msg) ==
    IF TooLarge(msg)
    THEN /\ EnterChunked(model_name, audio_path)
         /\ UNCHANGED primary_err
    ELSE /\ pc' = "fallback"
         /\ primary_err' = msg
         /\ UNCHANGED <<outv, dispv>>

\* variant: a failure that is not about size sends the same request again
HandleSingleErrorRetrySame(msg) ==
    IF TooLarge(msg)
    THEN /\ EnterChunked(model_name, audio_path)
         /\ UNCHANGED primary_err
    ELSE /\ pc' = "primary"
         /\ primary_err' = msg
         /\ UNCHANGED <<outv, dispv>>

\* transcriber.py:182-211: the handler of the single-shot try block
HandleSingleError(msg) ==
    IF TooLarge(msg)
    THEN /\ EnterChunked(model_name, audio_path)
         /\ UNCHANGED primary_err
    ELSE IF model_name # BaselineModel
    THEN /\ pc' = "fallback"
         /\ primary_err' = msg
         /\ UNCHANGED <<outv, dispv>>
    ELSE /\ Raise(Wrap("OpenAI API failed", msg))
         /\ UNCHANGED <<primary_err, dispv>>

\* transcriber.py:143
NeedsCompression(size) == size > UploadLimitMB * BytesPerMB

\* transcriber.py:131-148: entry of the single-shot path up to the size check
SingleShot ==
    /\ pc = "single"
    /\ UNCHANGED <<inputs, split_call, lc, objv, duration, should_chunk, audio_path>>
    /\ IF ~NeedsCompression(file_size)
       THEN /\ Report(<<85>>)
            /\ pc' = "primary"
            /\ UNCHANGED <<log, primary_err, outv, dispv>>
       ELSE /\ Report(<<85, 83>>)
            /\ IF ffmpeg_ok
               THEN /\ pc' = "compress"
                    /\ UNCHANGED <<log, primary_err, outv, dispv>>
               ELSE /\ log' = Append(log, ProcessorFailed(audio_path))
                    /\ HandleSingleError(<<"FFmpeg missing">>)

\* variant: the compressed path is not assigned back to audio_path
CompressedPathDropped(path, ok) == path

\* transcriber.py:150-153 with compress_for_api (audio_processor.py:164-221):
\* a failure of the compression is caught and the original path is kept
CompressedPath(path, ok) == IF ok THEN "compressed" ELSE path

Compress ==
    /\ pc = "compress"
    /\ \E ok \in BOOLEAN :
        /\ audio_path' = CompressedPath(audio_path, ok)
        /\ log' = Append(log, Call("compress", None, audio_path, None,
                                   IF ok THEN NoError ELSE <<"compress failed">>))
    /\ Report(<<62>>)
    /\ pc' = "primary"
    /\ UNCHANGED <<inputs, split_call, lc, objv, duration, should_chunk, primary_err, outv, dispv>>

\* transcriber.py:155-180: the primary remote call and its result
PrimaryCall ==
    /\ pc = "primary"
    /\ UNCHANGED <<inputs, split_call, lc, objv, duration, should_chunk, audio_path>>
    /\ LET fmt == ResponseFmt(model_name) IN
       \/ /\ log' = Append(log, Call("primary", model_name, audio_path, fmt, NoError))
          /\ Report(<<99>>)
          /\ Return(PrimaryResult(Response(model_name, audio_path, fmt)))
          /\ UNCHANGED <<primary_err, dispv>>
       \/ \E e \in RemoteErrors :
          /\ log' = Append(log, Call("primary", model_name, audio_path, fmt, e))
          /\ UNCHANGED progress
          /\ HandleSingleError(e)

\* transcriber.py:195-209: the retry against whisper-1
FallbackCall ==
    /\ pc = "fallback"
    /\ UNCHANGED <<inputs, split_call, lc, objv, mainv, progress, dispv>>
    /\ \/ /\ log' = Append(log, Call("fallback", BaselineModel, audio_path,
                                     "verbose_json", NoError))
          /\ Return(SingleResult(Response(BaselineModel, audio_path, "verbose_json")))
       \/ \E e2 \in RemoteErrors :
          /\ log' = Append(log, Call("fallback", BaselineModel, audio_path,
                                     "verbose_json", e2))
          /\ Raise(Wrap("OpenAI API failed (fallback failed too)", e2))

\* one call of self.model.transcribe, as an entry of log; e is the exception
\* it raised, NoLocalError when it returned
NoLocalError == [cls |-> None, msg |-> NoError]

LocalCall(fmt, e) ==
    [op |-> "local", model |-> model_name, path |-> audio_path, fmt |-> fmt,
     err |-> e.msg, cls |-> e.cls]

\* transcriber.py:221-226, 239-243: what whisper's transcribe returns
LocalResult == [text |-> RemoteText(model_name, audio_path),
                language |-> "zh", duration |-> 0]

\* variant: every RuntimeError is retried without fp16
RetryOnAnyRuntimeError(e) == e.cls = "RuntimeError"

\* transcriber.py:236-237  except RuntimeError as e: if "NaN" in str(e) and fp16
RetryWithoutFp16(e) == e.cls = "RuntimeError" /\ Contains(e.msg, "NaN")

\* transcriber.py:214-245: the local model, called with fp16
LocalTranscribe ==
    /\ pc = "local"
    /\ UNCHANGED <<inputs, split_call, lc, objv, mainv, dispv>>
    /\ \/ /\ log' = Append(log, LocalCall("fp16", NoLocalError))
          /\ Report(<<99>>)
          /\ Return(LocalResult)
       \/ \E e \in LocalErrors :
          /\ log' = Append(log, LocalCall("fp16", e))
          /\ UNCHANGED progress
          /\ IF RetryWithoutFp16(e)
             THEN /\ pc' = "local_retry"
                  /\ UNCHANGED outv
             ELSE IF e.cls = "RuntimeError"
             THEN Raise(e.msg)
             ELSE Raise(Wrap("transcription failed", e.msg))

\* transcriber.py:238-242: the retry with fp16=False, inside the handler: what
\* it returns is returned, what it raises leaves transcribe as it is
LocalRetry ==
    /\ pc = "local_retry"
    /\ UNCHANGED <<inputs, split_call, lc, objv, mainv, progress, dispv>>
    /\ \/ /\ log' = Append(log, LocalCall("fp32", NoLocalError))
          /\ Return(LocalResult)
       \/ \E e \in LocalErrors :
          /\ log' = Append(log, LocalCall("fp32", e))
          /\ Raise(e.msg)

---------------------------------------------------------------------------
(* Transcriber._transcribe_chunked: the dispatcher and its worker pool *)

\* printf's %03d: at least three digits
Pad3(i) ==
    IF i < 10 THEN "00" \o ToString(i)
    ELSE IF i < 100 THEN "0" \o ToString(i)
    ELSE ToString(i)

\* audio_processor.py:239  f"{base_name}_part%03d.mp3"
PartPath(unit, i) == unit \o "_part" \o Pad3(i) \o ".mp3"

Segments == IF total_chunks < 0 THEN {} ELSE 0 .. total_chunks - 1

\* a submitted task: its state, the exception it raised, the model its
\* request named, and the number of requests it has sent
NewFuture == [st |-> "pending", err |-> NoError, model |-> None, calls |-> 0]

\* variant: the segment requests go to the fallback model
SegmentModelBaseline(name) == BaselineModel

\* transcriber.py:284-285  create(model=model_name, ...), model_name being
\* the argument handed down from _transcribe_chunked (line 329)
SegmentModel(name) == name

Running == {i \in Segments : fut[i].st = "running"}

\* the usage object a segment's response carries (none for every third)
SegUsage(i) ==
    CASE i % 3 = 0 -> [prompt_tokens |-> 10, completion_tokens |-> 5]
      [] i % 3 = 1 -> [input_tokens |-> 7, output_tokens |-> 3, total_tokens |-> 10]
      [] OTHER     -> <<>>

\* variant: the counts of a segment replace the running sums (a lost update)
AddUsageOverwrite(total, u) ==
    IF DOMAIN u = {}
    THEN total
    ELSE [prompt_tokens     |-> OrElse(GetAttr(u, "prompt_tokens", 0),
                                       GetAttr(u, "input_tokens", 0)),
          completion_tokens |-> OrElse(GetAttr(u, "completion_tokens", 0),
                                       GetAttr(u, "output_tokens", 0)),
          total_tokens      |-> GetAttr(u, "total_tokens", 0)]

\* transcriber.py:343-351
AddUsage(total, u) ==
    IF DOMAIN u = {}
    THEN total
    ELSE [prompt_tokens     |-> total.prompt_tokens
                                + OrElse(GetAttr(u, "prompt_tokens", 0),
                                         GetAttr(u, "input_tokens", 0)),
          completion_tokens |-> total.completion_tokens
                                + OrElse(GetAttr(u, "completion_tokens", 0),
                                         GetAttr(u, "output_tokens", 0)),
          total_tokens      |-> total.total_tokens + GetAttr(u, "total_tokens", 0)]

\* variant: the text is appended in completion order
StoreResultAppend(slots, index, text) ==
    LET k == CHOOSE k \in DOMAIN slots :
                 slots[k] = None /\ \A j \in DOMAIN slots : j < k => slots[j] # None
    IN  [slots EXCEPT ![k] = text]

\* variant: every text is written to the first slot
StoreResultFirstSlot(slots, index, text) == [slots EXCEPT ![0] = text]

\* transcriber.py:340  results[index] = data['text']
StoreResult(slots, index, text) == [slots EXCEPT ![index] = text]

\* transcriber.py:374  "\n\n".join(results)
RECURSIVE JoinFrom(_, _)
JoinFrom(slots, i) ==
    IF i \notin DOMAIN slots THEN ""
    ELSE IF i + 1 \in DOMAIN slots
         THEN slots[i] \o "\n\n" \o JoinFrom(slots, i + 1)
         ELSE slots[i]

Join(slots) == JoinFrom(slots, 0)

\* transcriber.py:355
ChunkProgress(done, total) == 85 + (done * 14) \div total

\* stderr of an ffmpeg run that exited with a non-zero status
SplitDiagnostics == {<<"ffmpeg: invalid data">>}

\* variant: the diagnostic of the tool is not passed on
SplitErrorOpaque(diag) == <<"split failed">>

\* audio_processor.py:259-260  raise Exception(f"音频切片失败: {stderr}")
SplitError(diag) == Wrap("split failed", diag)

\* transcriber.py:304-317 with split_audio (audio_processor.py:222-266):
\* the segmenter returns at most maxN segment files, or raises after ffmpeg
\* wrote some of them; the call is outside the try block of line 324, so
\* its exception leaves _transcribe_chunked at once.  The returned list is
\* what glob finds (audio_processor.py:263-265), and the pattern is built
\* from the directory and the base name without glob.escape: when either
\* holds a character class such as [2024] the pattern matches none of the
\* files ffmpeg wrote and the list is empty (n = 0)
SplitN(maxN) ==
    /\ pc = "split"
    /\ UNCHANGED <<inputs, split_call, lc, objv, mainv, chunk_model, chunk_path>>
    /\ IF ~ffmpeg_ok
       THEN /\ log' = Append(log, ProcessorFailed(chunk_path))
            /\ Raise(<<"FFmpeg missing">>)
            /\ UNCHANGED <<progress, poolv>>
       ELSE /\ Report(<<84>>)
            /\ \/ \E diag \in SplitDiagnostics, written \in 0 .. maxN :
                  /\ log' = Append(log, Call("split", None, chunk_path, None, diag))
                  /\ Raise(SplitError(diag))
                  /\ files' = 0 .. written - 1
                  /\ UNCHANGED <<total_chunks, fut, submitted, yielded, results,
                                 total_usage, completed_count, pending,
                                 rm_failed, reordered>>
               \/ \E n \in 0 .. maxN :
                  /\ log' = Append(log, Call("split", None, chunk_path, None,
                                             NoError))
                  /\ total_chunks' = n
                  /\ files' = 0 .. n - 1
                  /\ fut' = [i \in 0 .. n - 1 |-> NewFuture]
                  /\ results' = [i \in 0 .. n - 1 |-> None]
                  /\ total_usage' = ZeroUsage
                  /\ pc' = IF n = 0 THEN "collect" ELSE "submit"
                  /\ UNCHANGED <<submitted, yielded, completed_count, pending,
                                 rm_failed, reordered, outv>>

Split == SplitN(MaxJobChunks)

SplitWide == SplitN(MaxChunks)

\* transcriber.py:327-332: one executor.submit; nothing is waited for
Submit ==
    /\ pc = "submit"
    /\ submitted < total_chunks
    /\ submitted' = submitted + 1
    /\ pc' = IF submitted' = total_chunks THEN "collect" ELSE "submit"
    /\ UNCHANGED <<inputs, split_call, lc, objv, mainv, log, progress, outv, chunk_model,
                   chunk_path, total_chunks, files, fut, yielded, results,
                   total_usage, completed_count, pending, rm_failed, reordered>>

\* variant: a pool without a width
WorkerAlwaysFree == TRUE

\* variant: a pool none of whose workers ever takes a task
WorkerNeverFree == FALSE

\* transcriber.py:321,325  ThreadPoolExecutor(max_workers=4): a worker is free
WorkerFree == Cardinality(Running) < MaxWorkers

\* a worker takes the oldest queued task: _transcribe_part opens the segment
\* file (transcriber.py:280-282) and sends the request
StartTask(i) ==
    /\ i \in Segments
    /\ i < submitted
    /\ fut[i].st = "pending"
    /\ \A j \in Segments : j < i => fut[j].st # "pending"
    /\ WorkerFree
    /\ fut' = [fut EXCEPT ![i] = IF i \in files
                                 THEN [st |-> "running", err |-> NoError,
                                       model |-> SegmentModel(chunk_model),
                                       calls |-> fut[i].calls + 1]
                                 ELSE [fut[i] EXCEPT
                                           !.st = "done",
                                           !.err = <<"FileNotFoundError">>]]
    /\ UNCHANGED <<inputs, split_call, lc, objv, pc, mainv, log, progress, outv, chunk_model,
                   chunk_path, total_chunks, files, submitted, yielded, results,
                   total_usage, completed_count, pending, rm_failed, reordered>>

\* transcriber.py:284-298: the request of segment i returns or raises
FinishTask(i) ==
    /\ i \in Segments
    /\ fut[i].st = "running"
    /\ \E e \in {NoError} \cup SegErrors :
        fut' = [fut EXCEPT ![i].st = "done", ![i].err = e]
    /\ UNCHANGED <<inputs, split_call, lc, objv, pc, mainv, log, progress, outv, chunk_model,
                   chunk_path, total_chunks, files, submitted, yielded, results,
                   total_usage, completed_count, pending, rm_failed, reordered>>

\* variant: the worker's exception is lost
FutureNeverRaises(f) == FALSE

\* transcriber.py:339  future.result() re-raises the worker's exception
FutureRaised(f) == f.err # NoError

\* variant: the loop goes on collecting after a failure
AbortPcKeepCollecting == "collect"

\* transcriber.py:358-360  the raise leaves the as_completed loop for the
\* exit of the with block
AbortPc == "shutdown"

\* transcriber.py:335-360: as_completed hands over a finished future
Collect(i) ==
    /\ pc = "collect"
    /\ i \in Segments
    /\ fut[i].st = "done"
    /\ i \notin yielded
    /\ yielded' = yielded \cup {i}
    /\ UNCHANGED <<inputs, split_call, lc, objv, mainv, log, outv, chunk_model, chunk_path,
                   total_chunks, files, fut, submitted, rm_failed>>
    /\ IF ~FutureRaised(fut[i])
       THEN /\ results' = StoreResult(results, i,
                                      RemoteText(fut[i].model, PartPath(chunk_path, i)))
            /\ total_usage' = AddUsage(total_usage, SegUsage(i))
            /\ completed_count' = completed_count + 1
            /\ Report(<<ChunkProgress(completed_count', total_chunks)>>)
            /\ reordered' = (reordered \/ \E j \in yielded : j > i)
            /\ UNCHANGED <<pc, pending>>
       ELSE /\ pending' = Wrap("segment failed", Wrap(ToString(i + 1), fut[i].err))
            /\ pc' = AbortPc
            /\ UNCHANGED <<results, total_usage, completed_count, progress, reordered>>

\* variant: executor.shutdown(wait=False)
PoolNotJoined == TRUE

\* transcriber.py:325  leaving the with block is executor.shutdown(wait=True):
\* it returns when every submitted task, queued ones included, has finished
PoolJoined == \A i \in Segments : fut[i].st = "done"

ExitPool ==
    /\ \/ pc = "collect" /\ yielded = Segments
       \/ pc = "shutdown"
    /\ PoolJoined
    /\ pc' = "cleanup"
    /\ UNCHANGED <<inputs, split_call, lc, objv, mainv, log, progress, outv, dispv>>

\* transcriber.py:366-369  try: os.remove(chunk_path) / except: pass
AfterRemove(exc, failed) == exc

\* variant: the files are removed only when no exception is in flight
FilesAfterCleanupOnSuccess(existing, failed, exc) ==
    IF exc = NoError THEN failed ELSE existing

\* transcriber.py:362-367  the finally block runs with or without an exception
\* in flight: what is left is what os.remove could not delete
FilesAfterCleanup(existing, failed, exc) == failed

\* the segment files whose os.remove may fail together: none, one, or all
RmFailures(existing) == {{}} \cup {{i} : i \in existing} \cup {existing}

\* transcriber.py:362-384: the finally block (os.remove fails for `failed`),
\* then the exception in flight leaves the function, or the slots are joined
\* and the result is returned
Cleanup ==
    /\ pc = "cleanup"
    /\ UNCHANGED <<inputs, split_call, lc, objv, mainv, log, chunk_model, chunk_path,
                   total_chunks, fut, submitted, yielded, results, total_usage,
                   completed_count, reordered>>
    /\ \E failed \in RmFailures(files) :
        /\ files' = FilesAfterCleanup(files, failed, pending)
        /\ rm_failed' = failed
        /\ pending' = AfterRemove(pending, failed)
    /\ IF pending' # NoError
       THEN /\ Raise(pending')
            /\ UNCHANGED progress
       ELSE IF \E i \in Segments : results[i] = None
       THEN /\ Raise(<<"TypeError">>)
            /\ UNCHANGED progress
       ELSE /\ Report(<<99>>)
            /\ Return([text |-> Join(results), language |-> "arg",
                       segments |-> <<>>, usage |-> total_usage])

---------------------------------------------------------------------------
(* AudioProcessor.split_audio, one call seen from inside *)

\* durations of the source and values of segment_seconds, in whole seconds
SrcSeconds == (1 .. 12) \cup {297, 298, 299, 596, 597, 1000, 1001, 2001}
SegSeconds == {1, 2, 298, 300}
\* durations of the source of a later call on the same base name
LaterSeconds == 1 .. 3

Ceil(a, b) == (a + b - 1) \div b

\* audio_processor.py:245-258  ffmpeg -f segment -segment_time seg, run to a
\* zero exit status: consecutive pieces of seg seconds, the last one
\* shorter, written under the numbers 0, 1, 2, ...
FfmpegSegments(src, seg) == 0 .. Ceil(src, seg) - 1

\* the seconds of the source that piece i holds
PieceSeconds(i, src, seg) == IF (i + 1) * seg <= src THEN seg ELSE src - i * seg

\* audio_processor.py:264  the pattern f"{base_name}_part???.mp3": exactly
\* three characters stand between "_part" and ".mp3"
GlobMatches(i) == Len(Pad3(i)) = 3

RECURSIVE Dec(_)
Dec(i) == IF i < 10 THEN <<i>> ELSE Dec(i \div 10) \o <<i % 10>>

\* the characters in which the name of piece i differs from the other names:
\* its digits as %03d prints them, then the "." of ".mp3", which sorts
\* below every digit
NameKey(i) ==
    (IF i < 10 THEN <<0, 0>> ELSE IF i < 100 THEN <<0>> ELSE <<>>)
        \o Dec(i) \o <<-1>>

\* str.__lt__ on two names
LexLess(a, b) ==
    \E k \in 1 .. Len(a) :
        /\ k <= Len(b)
        /\ a[k] < b[k]
        /\ \A j \in 1 .. k - 1 : a[j] = b[j]

\* audio_processor.py:265  glob.glob(search_pattern) over the files numbered
\* lo .. hi (the directory is listed by ascending number here; sorted()
\* makes the order of the listing immaterial)
RECURSIVE Glob(_, _, _)
Glob(on_disk, lo, hi) ==
    IF lo > hi THEN <<>>
    ELSE IF lo = hi
         THEN IF lo \in on_disk /\ GlobMatches(lo) THEN <<lo>> ELSE <<>>
         ELSE LET mid == (lo + hi) \div 2
              IN  Glob(on_disk, lo, mid) \o Glob(on_disk, mid + 1, hi)

\* audio_processor.py:265  sorted(...): the names in ascending str order
Sorted(names) == SortSeq(names, LAMBDA a, b : LexLess(NameKey(a), NameKey(b)))

\* audio_processor.py:222-266: split_audio(input_path, segment_seconds) on an
\* existing file.  split_call.stale holds the numbers of the files
\* {base_name}_partNNN.mp3 that the directory holds when the call starts;
\* ffmpeg -y writes its pieces over those of the same number and touches no
\* other; the glob then lists the directory, whatever wrote the files.  Both
\* stale and written are initial runs 0 .. k-1, so the highest number on disk
\* is one less than the number of files.  When ffmpeg exits with a non-zero
\* status the pieces it wrote before stay on disk.
SplitAudio ==
    /\ split_call.pc = "call"
    /\ \/ LET written == FfmpegSegments(split_call.src, split_call.seg)
              on_disk == split_call.stale \cup written
          IN  split_call' = [split_call EXCEPT
                                !.pc = "returned",
                                !.written = written,
                                !.chunks = Sorted(Glob(on_disk, 0, Cardinality(on_disk) - 1))]
       \/ \E w \in 0 .. MaxLeft :
            /\ w <= Cardinality(FfmpegSegments(split_call.src, split_call.seg))
            /\ split_call' = [split_call EXCEPT !.pc = "raised",
                                                !.written = 0 .. w - 1]
    /\ UNCHANGED <<inputs, objv, pc, mainv, log, progress, outv, dispv, lc>>

\* transcriber.py:312  a later job calls split_audio on a source of the same
\* base name in the same directory, after a call that raised: the dispatcher
\* left that call through the exception, before its try/finally, so the
\* pieces written by then are still there
SplitAgain ==
    /\ split_call.pc = "raised"
    /\ split_call.calls < MaxSplitCalls
    /\ \E d \in LaterSeconds, l \in SegSeconds :
         split_call' = [pc |-> "call", src |-> d, seg |-> l,
                        stale |-> split_call.stale \cup split_call.written,
                        written |-> {}, chunks |-> <<>>,
                        calls |-> split_call.calls + 1]
    /\ UNCHANGED <<inputs, objv, pc, mainv, log, progress, outv, dispv, lc>>

---------------------------------------------------------------------------
(* Specifications *)

\* one whole job
Next ==
    \/ Begin
    \/ Probe
    \/ SingleShot
    \/ Compress
    \/ PrimaryCall
    \/ FallbackCall
    \/ LocalTranscribe
    \/ LocalRetry
    \/ Split
    \/ Submit
    \/ \E i \in Segments : StartTask(i)
    \/ \E i \in Segments : FinishTask(i)
    \/ \E i \in Segments : Collect(i)
    \/ ExitPool
    \/ Cleanup

Spec == Init /\ [][Next]_vars

\* the whole job when every call it waits for resolves: a step of the job is
\* its own next statement or a collaborator call returning or raising, and
\* none of them stays possible for ever without happening
FairSpec == Spec /\ WF_vars(Next)

\* the dispatcher alone, from the state in which transcribe enters it for an
\* audio file measured longer than the threshold (transcriber.py:126-129)
InitChunked ==
    /\ model_name \in ApiModels
    /\ api_key = TRUE
    /\ file_exists = TRUE
    /\ file_size = BytesPerMB
    /\ ffmpeg_ok = TRUE
    /\ client = TRUE
    /\ model = FALSE
    /\ pc = "split"
    /\ duration = ChunkThreshold * 10 + 1
    /\ should_chunk = TRUE
    /\ audio_path = "orig"
    /\ primary_err = NoError
    /\ log = <<Call("probe", None, "orig", None, NoError)>>
    /\ progress = <<82, 83>>
    /\ outcome = "none"
    /\ result = NoResult
    /\ error = NoError
    /\ chunk_model = model_name
    /\ chunk_path = audio_path
    /\ InitPool
    /\ split_call = NoSplitCall
    /\ lc = NoLifecycle

NextChunked ==
    \/ SplitWide
    \/ Submit
    \/ \E i \in Segments : StartTask(i)
    \/ \E i \in Segments : FinishTask(i)
    \/ \E i \in Segments : Collect(i)
    \/ ExitPool
    \/ Cleanup

SpecChunked == InitChunked /\ [][NextChunked]_vars

\* split_audio alone, for each source duration and segment length
InitSplit ==
    /\ model_name = BaselineModel
    /\ api_key = TRUE
    /\ file_exists = TRUE
    /\ file_size = BytesPerMB
    /\ ffmpeg_ok = TRUE
    /\ client = TRUE
    /\ model = FALSE
    /\ pc = "split"
    /\ duration = -1
    /\ should_chunk = FALSE
    /\ audio_path = "orig"
    /\ primary_err = NoError
    /\ log = <<>>
    /\ progress = <<>>
    /\ outcome = "none"
    /\ result = NoResult
    /\ error = NoError
    /\ chunk_model = model_name
    /\ chunk_path = audio_path
    /\ InitPool
    /\ split_call \in {[pc |-> "call", src |-> d, seg |-> l, stale |-> {},
                        written |-> {}, chunks |-> <<>>, calls |-> 1] :
                           d \in SrcSeconds, l \in SegSeconds}
    /\ lc = NoLifecycle

NextSplit ==
    \/ SplitAudio
    \/ SplitAgain

SpecSplit == InitSplit /\ [][NextSplit]_vars

(***************************************************************************)
(* One Transcriber with a local model, its methods called in any order.     *)
(* lc.attr is the instance attribute self.model: "None" as the constructor  *)
(* leaves it, "handle" when it holds the loaded model, "deleted" when the    *)
(* attribute has been removed from the instance (del self.model) and not     *)
(* set again.  lc.loads counts the calls of whisper.load_model.              *)
(***************************************************************************)

\* what reading self.model does: an attribute that was deleted raises
\* AttributeError, for the class defines no attribute of that name
AttrReadable(l) == l.attr # "deleted"

\* load_model: `if self.model is not None: return`
HandleHeld(l) == l.attr = "handle"

\* the call has been made and has ended as said
Ended(l, op, how) == [l EXCEPT !.calls = l.calls + 1, !.op = op, !.ended = how]

\* the local branch of load_model; the outcomes it can have
LoadModelOutcomes(l, op) ==
    IF ~AttrReadable(l)
    THEN {Ended(l, op, "AttributeError")}
    ELSE IF HandleHeld(l)
    THEN {Ended(l, op, "returned")}
    ELSE {[Ended(l, op, "returned") EXCEPT !.attr = "handle", !.loads = l.loads + 1],
          [Ended(l, op, "load failed") EXCEPT !.loads = l.loads + 1]}

\* load_model()
LoadModel ==
    /\ lc.calls < MaxOps
    /\ lc' \in LoadModelOutcomes(lc, "load_model")
    /\ UNCHANGED <<inputs, objv, pc, mainv, log, progress, outv, dispv, split_call>>

\* transcribe(audio_path) on an existing file: load_model, then the model's
\* own transcribe, which returns or raises; neither touches self.model
Transcribe ==
    /\ lc.calls < MaxOps
    /\ \E l \in LoadModelOutcomes(lc, "transcribe") :
         lc' \in IF l.ended = "returned"
                 THEN {l, [l EXCEPT !.ended = "transcribe failed"]}
                 ELSE {l}
    /\ UNCHANGED <<inputs, objv, pc, mainv, log, progress, outv, dispv, split_call>>

\* unload_model(): `if self.model:` reads the attribute; with a handle held
\* the attribute is deleted, the collector and the accelerator cache are
\* asked to reclaim memory, and only then is self.model set to None, so a
\* reclaim call that raises leaves the instance without the attribute
UnloadModel ==
    /\ lc.calls < MaxOps
    /\ lc' \in IF ~AttrReadable(lc)
               THEN {Ended(lc, "unload_model", "AttributeError")}
               ELSE IF lc.attr = "None"
               THEN {Ended(lc, "unload_model", "returned")}
               ELSE {[Ended(lc, "unload_model", "returned") EXCEPT !.attr = "None"],
                     [Ended(lc, "unload_model", "reclaim failed") EXCEPT !.attr = "deleted"]}
    /\ UNCHANGED <<inputs, objv, pc, mainv, log, progress, outv, dispv, split_call>>

InitLifecycle ==
    /\ model_name \in LocalModels
    /\ api_key = FALSE
    /\ file_exists = TRUE
    /\ file_size = BytesPerMB
    /\ ffmpeg_ok = TRUE
    /\ client = FALSE
    /\ model = FALSE
    /\ pc = "lifecycle"
    /\ duration = -1
    /\ should_chunk = FALSE
    /\ audio_path = "orig"
    /\ primary_err = NoError
    /\ log = <<>>
    /\ progress = <<>>
    /\ outcome = "none"
    /\ result = NoResult
    /\ error = NoError
    /\ chunk_model = model_name
    /\ chunk_path = audio_path
    /\ InitPool
    /\ split_call = NoSplitCall
    /\ lc = NoLifecycle

NextLifecycle ==
    \/ LoadModel
    \/ Transcribe
    \/ UnloadModel

SpecLifecycle == InitLifecycle /\ [][NextLifecycle]_vars

---------------------------------------------------------------------------
(* Properties *)

\* shared vocabulary of the properties, spelled out from the source text
MarkedTooLarge(msg) ==
    \E k \in DOMAIN msg : msg[k] \in {"input_too_large", "maximum context"}

PrimaryIdx == {k \in DOMAIN log : log[k].op = "primary"}
CompressIdx == {k \in DOMAIN log : log[k].op = "compress"}
SplitIdx == {k \in DOMAIN log : log[k].op = "split"}
FallbackIdx == {k \in DOMAIN log : log[k].op = "fallback"}

PrimaryTooLarge == \E k \in PrimaryIdx : MarkedTooLarge(log[k].err)
PrimaryOtherFailure ==
    \E k \in PrimaryIdx : log[k].err # NoError /\ ~MarkedTooLarge(log[k].err)

SegText(i) == chunk_model \o ":" \o PartPath(chunk_path, i)

\* the texts of segments 0 .. n-1, ascending, separated by two line breaks
RECURSIVE TextInIndexOrder(_)
TextInIndexOrder(n) ==
    IF n <= 0 THEN ""
    ELSE IF n = 1 THEN SegText(0)
    ELSE TextInIndexOrder(n - 1) \o "\n\n" \o SegText(n - 1)

FailedSegments == {i \in Segments : fut[i].err # NoError}
Unfinished == {i \in Segments : fut[i].st # "done"}
InFlight == {i \in Segments : fut[i].st = "running"}
Dispatched == total_chunks >= 0

(* C1: a remote job whose duration was measured chunks at once exactly when *)
(* the duration is above 298 s (2980 tenths): above, the dispatcher is      *)
(* entered and no single-shot call is ever made; at 298 s or below the job  *)
(* takes the single-shot path, a finished job has made its direct remote    *)
(* call, and the dispatcher is reached only after that call was rejected as *)
(* too large                                                                *)
C1_ThresholdDecision ==
    (IsApiModel(model_name) /\ pc \notin {"start", "probe"} /\ duration >= 0) =>
        /\ should_chunk <=> duration > 2980
        /\ duration > 2980 =>
            /\ RemoteCalls = <<>>
            /\ chunk_model = model_name
            /\ pc \notin {"single", "compress", "primary", "fallback"}
        /\ duration <= 2980 =>
            /\ pc = "done" => Len(RemoteCalls) >= 1
            /\ chunk_model # None =>
                /\ Len(RemoteCalls) = 1
                /\ MarkedTooLarge(RemoteCalls[1].err)
            /\ \A k \in SplitIdx : \E j \in PrimaryIdx : j < k

\* a job of exactly 298 seconds that ended with one direct call and no split
C1_Witness ==
    /\ duration = 2980
    /\ pc = "done"
    /\ outcome = "success"
    /\ Len(RemoteCalls) = 1
    /\ total_chunks = -1

(* C2: whatever the order in which the segment calls complete and are       *)
(* collected, the text returned on success is the segments' texts in        *)
(* ascending index, joined by two line breaks                               *)
C2_OrderInvariantText ==
    (pc = "done" /\ outcome = "success" /\ Dispatched) =>
        result.text = TextInIndexOrder(total_chunks)

\* a successful batch of three or more segments collected out of index order
C2_Witness ==
    /\ pc = "done"
    /\ outcome = "success"
    /\ total_chunks >= 3
    /\ reordered

(* C3: a batch in which some segment call failed never returns a result;    *)
(* a returned transcript is made of the text of every one of the N segments *)
C3_AllOrNothing ==
    /\ FailedSegments # {} => outcome # "success"
    /\ (outcome = "success" /\ Dispatched) =>
        /\ \A i \in Segments : fut[i].st = "done" /\ results[i] = SegText(i)
        /\ result.text = Join(results)

\* exactly one of at least two segments failed, others had been collected
C3_Witness ==
    /\ pc = "done"
    /\ outcome = "failure"
    /\ total_chunks >= 2
    /\ Cardinality(FailedSegments) = 1
    /\ \E i \in Segments : results[i] # None

C5_QuiesceBeforeCleanup ==
    /\ Unfinished # {} =>
        /\ files = Segments
        /\ outcome = "none"
        /\ pc \in {"submit", "collect", "shutdown"}
    /\ \A i \in Segments : ~Contains(fut[i].err, "FileNotFoundError")

\* the failure has been observed while one call runs and another is queued
C5_Witness ==
    /\ pc = "shutdown"
    /\ \E i \in Segments : fut[i].st = "pending"
    /\ \E i \in Segments : fut[i].st = "running"
    /\ files = Segments

(* C6: at most 4 segment requests are in flight, for any N; and collecting  *)
(* starts only when all N segments have been submitted                      *)
C6_BoundedFanOut ==
    /\ Cardinality(InFlight) <= 4
    /\ submitted <= Cardinality(Segments)
    /\ (Dispatched /\ pc \in {"collect", "shutdown", "cleanup", "done"}) =>
        submitted = total_chunks

\* more than 4 segments, all submitted while none has finished, 4 in flight
C6_Witness ==
    /\ total_chunks > 4
    /\ submitted = total_chunks
    /\ Cardinality(InFlight) = 4
    /\ \A i \in Segments : fut[i].st # "done"

C8_TooLargeEscalates ==
    PrimaryTooLarge =>
        /\ chunk_model = model_name
        /\ chunk_path = audio_path
        /\ FallbackIdx = {}
        /\ Len(RemoteCalls) = 1
        /\ pc \in {"split", "submit", "collect", "shutdown", "cleanup", "done"}
        /\ (pc = "done" /\ outcome = "success") =>
            /\ Dispatched
            /\ result.text = TextInIndexOrder(total_chunks)
            /\ result.usage = total_usage
        /\ (pc = "done" /\ outcome = "failure") =>
            error[1] \in {"segment failed", "split failed", "FFmpeg missing"}

\* the baseline model itself, rejected as too large, ended in a chunked result
C8_Witness ==
    /\ PrimaryTooLarge
    /\ model_name = "whisper-1"
    /\ pc = "done"
    /\ outcome = "success"
    /\ total_chunks >= 1

(* C9: after the primary call of a model other than whisper-1 failed for    *)
(* another reason than size, the job makes one more single-shot call, to    *)
(* whisper-1, and ends: in success with that call's text, or in failure;    *)
(* there is no third call and no segmentation                               *)
C9_SingleFallback ==
    (PrimaryOtherFailure /\ model_name # "whisper-1") =>
        /\ total_chunks = -1
        /\ chunk_model = None
        /\ pc \in {"fallback", "done"}
        /\ pc = "fallback" => Len(RemoteCalls) = 1
        /\ pc = "done" =>
            /\ Len(RemoteCalls) = 2
            /\ RemoteCalls[2].op = "fallback"
            /\ RemoteCalls[2].model = "whisper-1"
            /\ RemoteCalls[2].err = NoError =>
                /\ outcome = "success"
                /\ result.text = "whisper-1:" \o RemoteCalls[2].path
            /\ RemoteCalls[2].err # NoError => outcome = "failure"

\* the retry succeeded
C9_Witness ==
    /\ PrimaryOtherFailure
    /\ pc = "done"
    /\ outcome = "success"
    /\ Len(RemoteCalls) = 2

(* C10: when whisper-1 is the configured model and its call failed for      *)
(* another reason than size, the job has ended in failure with that one     *)
(* remote call and no segment call                                          *)
C10_NoRetryOnBaseline ==
    (PrimaryOtherFailure /\ model_name = "whisper-1") =>
        /\ pc = "done"
        /\ outcome = "failure"
        /\ Len(RemoteCalls) = 1
        /\ total_chunks = -1

\* whisper-1 failed with a rate-limit error
C10_Witness ==
    /\ model_name = "whisper-1"
    /\ PrimaryOtherFailure
    /\ pc = "done"
    /\ outcome = "failure"

\* every token of msg occurs in the message whole
Carries(whole, msg) == \A k \in DOMAIN msg : Contains(whole, msg[k])

FallbackFailed == \E k \in FallbackIdx : log[k].err # NoError

(* C11, as stated: when the primary call and the retry against whisper-1    *)
(* have both failed, the error raised to the caller carries the message of  *)
(* the primary error and the message of the retry's error                   *)
C11_BothReasons ==
    (pc = "done" /\ FallbackFailed) =>
        /\ outcome = "failure"
        /\ \A k \in PrimaryIdx : Carries(error, log[k].err)
        /\ \A k \in FallbackIdx : Carries(error, log[k].err)

\* what segment i's response reports, by either pair of field names
PromptOf(i) ==
    LET u == SegUsage(i) IN
    IF "prompt_tokens" \in DOMAIN u THEN u.prompt_tokens
    ELSE IF "input_tokens" \in DOMAIN u THEN u.input_tokens ELSE 0

CompletionOf(i) ==
    LET u == SegUsage(i) IN
    IF "completion_tokens" \in DOMAIN u THEN u.completion_tokens
    ELSE IF "output_tokens" \in DOMAIN u THEN u.output_tokens ELSE 0

\* the total of segment i: the reported one, else prompt + completion
TotalOf(i) ==
    LET u == SegUsage(i) IN
    IF "total_tokens" \in DOMAIN u THEN u.total_tokens
    ELSE PromptOf(i) + CompletionOf(i)

RECURSIVE SumPrompt(_)
SumPrompt(n) == IF n <= 0 THEN 0 ELSE SumPrompt(n - 1) + PromptOf(n - 1)

RECURSIVE SumCompletion(_)
SumCompletion(n) == IF n <= 0 THEN 0 ELSE SumCompletion(n - 1) + CompletionOf(n - 1)

RECURSIVE SumTotal(_)
SumTotal(n) == IF n <= 0 THEN 0 ELSE SumTotal(n - 1) + TotalOf(n - 1)

(* C12, as stated: after a successful batch the accumulator's prompt and    *)
(* completion counts are the sums over all segments, and its total is the   *)
(* sum of the segments' totals, a segment that reports no total counting    *)
(* for its prompt + completion                                              *)
C12_UsageTotals ==
    (pc = "done" /\ outcome = "success" /\ Dispatched) =>
        /\ result.usage = total_usage
        /\ total_usage.prompt_tokens = SumPrompt(total_chunks)
        /\ total_usage.completion_tokens = SumCompletion(total_chunks)
        /\ total_usage.total_tokens = SumTotal(total_chunks)

RemoteTooLarge ==
    \E k \in PrimaryIdx \cup FallbackIdx : MarkedTooLarge(log[k].err)

(* C13, as stated: once any remote call made outside the dispatcher, the    *)
(* retry against whisper-1 included, was rejected as too large, the job is  *)
(* in the dispatcher; it ends in failure only with an error raised inside   *)
(* the dispatcher                                                           *)
C13_AnyTooLargeEscalates ==
    RemoteTooLarge =>
        /\ chunk_model # None
        /\ pc \in {"split", "submit", "collect", "shutdown", "cleanup", "done"}
        /\ (pc = "done" /\ outcome = "failure") =>
            error[1] \in {"segment failed", "split failed", "FFmpeg missing"}

LocalIdx == {k \in DOMAIN log : log[k].op = "local"}

\* a local transcription that failed with a numeric-instability error: a
\* RuntimeError whose message names NaN
NaNFailure(c) ==
    /\ c.op = "local"
    /\ c.cls = "RuntimeError"
    /\ \E j \in DOMAIN c.err : c.err[j] = "NaN"

C15_LocalNeverChunks ==
    model_name \in {"base"} =>
        /\ \A k \in DOMAIN log : log[k].op = "local" /\ log[k].path = "orig"
        /\ ~client
        /\ audio_path = "orig"
        /\ chunk_model = None
        /\ total_chunks = -1
        /\ submitted = 0
        /\ pc \in {"start", "local", "local_retry", "done"}

\* a local job on a file above the upload limit that ended in success
C15_Witness ==
    /\ model_name = "base"
    /\ file_size > 24 * 1048576
    /\ pc = "done"
    /\ outcome = "success"
    /\ Len(log) = 1
    /\ log[1].op = "local"

SplitFailed == \E k \in SplitIdx : log[k].err # NoError

(* C16: once the segmenter has failed the job has ended, in failure, with   *)
(* an error that carries the tool's diagnostic; the segmenter was called    *)
(* once; no segment request was submitted or run, whatever segment files    *)
(* the tool had written; and no transcript was assembled                    *)
C16_SplitFailureAborts ==
    SplitFailed =>
        /\ pc = "done"
        /\ outcome = "failure"
        /\ \A k \in SplitIdx : \A j \in DOMAIN log[k].err :
               \E m \in DOMAIN error : error[m] = log[k].err[j]
        /\ error[1] = "split failed"
        /\ Cardinality(SplitIdx) = 1
        /\ \A k \in SplitIdx : k = Len(log)
        /\ submitted = 0
        /\ fut = <<>>
        /\ results = <<>>
        /\ total_chunks = -1
        /\ result = NoResult

\* the segmenter failed after it had written segment files
C16_Witness ==
    /\ SplitFailed
    /\ files # {}
    /\ pc = "done"

\* the seconds of the source held by the pieces chunks[lo .. hi]
RECURSIVE SecondsOf(_, _, _)
SecondsOf(chunks, lo, hi) ==
    IF lo > hi THEN 0
    ELSE IF lo = hi
         THEN PieceSeconds(chunks[lo], split_call.src, split_call.seg)
         ELSE LET mid == (lo + hi) \div 2
              IN  SecondsOf(chunks, lo, mid) + SecondsOf(chunks, mid + 1, hi)

(* C17, as stated: for a source of D seconds and a segment length L,        *)
(* split_audio, called in a directory that holds no segment file of that    *)
(* base name, returns exactly ceil(D/L) segments, the k-th of them the      *)
(* piece numbered k-1, in the order of the sorted file names, and their     *)
(* durations sum to D                                                       *)
C17_SegmentCoverage ==
    (split_call.pc = "returned" /\ split_call.stale = {}) =>
        LET D == split_call.src
            L == split_call.seg
            N == IF D % L = 0 THEN D \div L ELSE D \div L + 1
        IN  /\ Len(split_call.chunks) = N
            /\ \A k \in 1 .. Len(split_call.chunks) : split_call.chunks[k] = k - 1
            /\ SecondsOf(split_call.chunks, 1, Len(split_call.chunks)) = D

(* C18, as stated: within one job no progress update reports a smaller      *)
(* percentage than an earlier update of the same job                        *)
C18_ProgressMonotone ==
    \A j, k \in DOMAIN progress : j < k => progress[j] <= progress[k]

ProcessorIdx == {k \in DOMAIN log : log[k].op = "processor"}

\* the errors raised by the collaborators the statement names
CollaboratorErrors ==
    {log[k].err : k \in ProcessorIdx \cup CompressIdx \cup SplitIdx
                         \cup PrimaryIdx \cup FallbackIdx} \ {NoError}

LastCall == log[Len(log)]

Gpt4oFamily == {"gpt-4o-transcribe", "gpt-4o-mini-transcribe"}

\* the job ended in success with the response of a single-shot call
SingleShotSuccess ==
    /\ pc = "done"
    /\ outcome = "success"
    /\ Len(log) >= 1
    /\ LastCall.op \in {"primary", "fallback"}

FormatsAsSelected ==
    /\ \A k \in PrimaryIdx :
        /\ log[k].model = model_name
        /\ log[k].fmt = "json" <=> model_name \in Gpt4oFamily
        /\ log[k].fmt = "verbose_json" <=> model_name \notin Gpt4oFamily
    /\ \A k \in FallbackIdx :
        log[k].model = "whisper-1" /\ log[k].fmt = "verbose_json"

(* C20, as stated: the primary call asks for json exactly when the model    *)
(* name starts with gpt-4o and for the verbose format otherwise, the retry  *)
(* always for the verbose format; and a result made from a json response,   *)
(* which carries no language and no duration, has these two fields unset    *)
C20_UnsetWhenAbsent ==
    /\ FormatsAsSelected
    /\ (SingleShotSuccess /\ LastCall.fmt = "json") =>
        /\ "language" \in DOMAIN result => result.language = None
        /\ "duration" \notin DOMAIN result

(* C20, amended: the formats are selected as stated; a result made from a   *)
(* verbose response carries the response's language and duration, and a    *)
(* result made from a json response carries the placeholders "auto" and 0   *)
(* in their place, with the response's usage                                *)
C20_FormatAndPlaceholders ==
    /\ FormatsAsSelected
    /\ SingleShotSuccess =>
        /\ result.text = LastCall.model \o ":" \o LastCall.path
        /\ LastCall.fmt = "verbose_json" =>
            /\ result.language = "zh"
            /\ result.duration = 1
            /\ "usage" \notin DOMAIN result
        /\ LastCall.fmt = "json" =>
            /\ result.language = "auto"
            /\ result.duration = 0
            /\ "usage" \in DOMAIN result

\* a gpt-4o model answered in json and the result holds the placeholders
C20_Witness ==
    /\ SingleShotSuccess
    /\ model_name = "gpt-4o-transcribe"
    /\ LastCall.op = "primary"
    /\ LastCall.fmt = "json"
    /\ result.language = "auto"

SlotsWellFormed ==
    /\ ~Dispatched => results = <<>>
    /\ Dispatched =>
        /\ DOMAIN results = Segments
        /\ \A i \in Segments : results[i] \in {None, SegText(i)}
        /\ \A i \in Segments : results[i] # None <=> (i \in yielded /\ fut[i].err = NoError)
    /\ (pc = "done" /\ outcome = "success" /\ Dispatched) =>
        \A i \in Segments : results[i] # None

SlotWrittenOnce ==
    \A i \in DOMAIN results :
        results[i] # None => (i \in DOMAIN results' /\ results'[i] = results[i])

SlotsStartEmpty ==
    (results = <<>> /\ results' # <<>>) => \A i \in DOMAIN results' : results'[i] = None

(* C21: the dispatcher keeps one slot per segment, all empty when they are  *)
(* allocated; a slot holds nothing or the text of the segment of its own    *)
(* index; a filled slot is never written again; and when a result is        *)
(* returned every one of the N slots is filled                              *)
C21_SlotsFilledOnce ==
    /\ []SlotsWellFormed
    /\ [][SlotWrittenOnce /\ SlotsStartEmpty]_vars

\* a later slot is filled while an earlier one is still empty
C21_Witness ==
    /\ pc = "collect"
    /\ total_chunks >= 3
    /\ \E i, j \in Segments : i < j /\ results[i] = None /\ results[j] = SegText(j)

\* the total segment i reports, nothing when it reports none
ReportedTotalOf(i) ==
    LET u == SegUsage(i) IN
    IF "total_tokens" \in DOMAIN u THEN u.total_tokens ELSE 0

\* the segments whose result the collecting thread has taken
Collected == {i \in yielded : fut[i].err = NoError}

\* per-field sums of what the segments of S numbered below n report
RECURSIVE ReportedSum(_, _)
ReportedSum(S, n) ==
    IF n <= 0 THEN [prompt_tokens |-> 0, completion_tokens |-> 0, total_tokens |-> 0]
    ELSE LET rest == ReportedSum(S, n - 1) IN
         IF n - 1 \notin S THEN rest
         ELSE [prompt_tokens     |-> rest.prompt_tokens + PromptOf(n - 1),
               completion_tokens |-> rest.completion_tokens + CompletionOf(n - 1),
               total_tokens      |-> rest.total_tokens + ReportedTotalOf(n - 1)]

AccumulatorExact ==
    /\ Dispatched => total_usage = ReportedSum(Collected, total_chunks)
    /\ (pc = "done" /\ outcome = "success" /\ Dispatched) =>
        /\ total_usage = ReportedSum(Segments, total_chunks)
        /\ result.usage = total_usage

\* the accumulator changes only in a step of the collecting thread that takes
\* one more result; a step of a worker leaves it alone
SingleWriter ==
    /\ (Dispatched /\ total_usage' # total_usage) =>
        /\ pc = "collect"
        /\ completed_count' = completed_count + 1
        /\ Cardinality(yielded') = Cardinality(yielded) + 1
        /\ fut' = fut
    /\ fut' # fut => total_usage' = total_usage

(* C22: the usage accumulator is written only by the collecting thread, one *)
(* collected result at a time, never in a step of a worker; at every moment *)
(* it is the per-field sum of what the collected segments reported, and in  *)
(* a returned result the per-field sum of what all N segments reported,     *)
(* whatever the order of completion                                         *)
C22_SerializedAccumulator ==
    /\ []AccumulatorExact
    /\ [][SingleWriter]_vars

\* four or more segments collected out of order, three of them reporting
C22_Witness ==
    /\ pc = "done"
    /\ outcome = "success"
    /\ total_chunks >= 4
    /\ reordered
    /\ total_usage.prompt_tokens = 27
    /\ total_usage.total_tokens = 10

\* the dispatcher has observed a segment failure
FailureObserved == pending # NoError

IgnoredAfterFailure ==
    FailureObserved =>
        /\ results' = results
        /\ total_usage' = total_usage
        /\ completed_count' = completed_count
        /\ progress' = progress
        /\ yielded' = yielded
        /\ pending' = pending

\* no request is cancelled: a future only moves forward, and when the job
\* has ended every segment's request was made and has finished
NothingCancelled ==
    /\ FailureObserved => Cardinality(yielded) = completed_count + 1
    /\ (pc = "done" /\ Dispatched) =>
        \A i \in Segments :
            /\ fut[i].st = "done"
            /\ ~Contains(fut[i].err, "FileNotFoundError")

FuturesMoveForward ==
    \A i \in DOMAIN fut :
        /\ fut[i].st = "done" => fut'[i] = fut[i]
        /\ fut[i].st = "running" => fut'[i].st \in {"running", "done"}

(* C23: once the dispatcher has observed a segment failure it writes no     *)
(* result slot, no usage count and no progress update, and it takes no      *)
(* further future; the requests in flight or queued at that moment are not  *)
(* cancelled: each of them still runs to its end                            *)
C23_IgnoredAfterFailure ==
    /\ []NothingCancelled
    /\ [][IgnoredAfterFailure /\ FuturesMoveForward]_vars

\* the batch failed and a segment that finished well was never collected
C23_Witness ==
    /\ pc = "done"
    /\ outcome = "failure"
    /\ \E i \in Segments :
        /\ i \notin yielded
        /\ fut[i].st = "done"
        /\ fut[i].err = NoError
        /\ results[i] = None

\* the index in log of the call of the segmenter, 0 when there is none
SplitAt == IF SplitIdx = {} THEN 0 ELSE CHOOSE k \in SplitIdx : TRUE

(* C24: in the dispatcher every segment is sent at most once, to the model  *)
(* the dispatcher was called with, which is the configured one; no remote   *)
(* call of the calling thread follows the segmentation, so there is no      *)
(* retry against whisper-1 and no single-shot attempt; and a failed         *)
(* segment, whatever its error, ends the job in failure with that segment's *)
(* error                                                                    *)
C24_NoRecoveryInChunkedMode ==
    Dispatched =>
        /\ \A i \in Segments :
            /\ fut[i].calls <= 1
            /\ fut[i].st \in {"running", "done"} => fut[i].calls = 1
            /\ fut[i].calls = 1 => fut[i].model = model_name
        /\ chunk_model = model_name
        /\ Cardinality(SplitIdx) = 1
        /\ SplitAt = Len(log)
        /\ FallbackIdx = {}
        /\ pc \in {"submit", "collect", "shutdown", "cleanup", "done"}
        /\ (pc = "done" /\ FailedSegments # {}) =>
            /\ outcome = "failure"
            /\ error[1] = "segment failed"

\* a model other than whisper-1 had a segment fail for a reason that is
\* not size, and the job ended without a retry
C24_Witness ==
    /\ pc = "done"
    /\ outcome = "failure"
    /\ model_name = "gpt-4o-transcribe"
    /\ \E i \in Segments : fut[i].err = <<"rate_limit">>
    /\ FallbackIdx = {}

---------------------------------------------------------------------------
\* the step is a call of one of the named methods
Called(ops) == lc'.calls = lc.calls + 1 /\ lc'.op \in ops

\* the step invoked the backend load, whisper.load_model
BackendLoaded == lc'.loads = lc.loads + 1

(* C25: over any sequence of load_model, transcribe and unload_model on one *)
(* Transcriber with a local model, the backend load is invoked only when no  *)
(* handle is held, a load_model with a handle present does nothing,          *)
(* unload_model leaves no handle, and a load_model or transcribe that        *)
(* follows an unload_model invokes the backend load again                    *)
C25_LazyIdempotentLoad ==
    [][/\ lc'.loads # lc.loads => (BackendLoaded /\ lc.attr # "handle")
       /\ (Called({"load_model"}) /\ lc.attr = "handle") =>
            (lc'.attr = "handle" /\ lc'.loads = lc.loads /\ lc'.ended = "returned")
       /\ Called({"unload_model"}) => lc'.attr # "handle"
       /\ (lc.op = "unload_model" /\ Called({"load_model", "transcribe"})) =>
            BackendLoaded]_vars

---------------------------------------------------------------------------
\* the job has ended, in success with a result or in failure with an error
Terminal ==
    /\ pc = "done"
    /\ \/ outcome = "success" /\ result # NoResult /\ error = NoError
       \/ outcome = "failure" /\ result = NoResult /\ error # NoError

(* C26: when every collaborator call returns or raises, every job reaches a *)
(* terminal state, success with a result or failure with an error; and the   *)
(* job never gives up by itself: as long as it has not ended, what it waits  *)
(* for is a step that can still happen, so only a call that never resolves   *)
(* keeps it from ending                                                      *)
C26_Termination ==
    /\ <>Terminal
    /\ [](pc = "done" => Terminal)
    /\ [](pc # "done" => ENABLED Next)

\* a job that went through the dispatcher with two segments in flight has ended
C26_Witness ==
    /\ Terminal
    /\ Dispatched
    /\ total_chunks = 2
    /\ \A i \in Segments : fut[i].calls = 1

---------------------------------------------------------------------------
(* C27: the list split_audio returns holds only files that this call wrote, *)
(* whatever earlier calls on the same base name left in the directory       *)
C27_OnlyOwnSegments ==
    split_call.pc = "returned" =>
        \A k \in 1 .. Len(split_call.chunks) :
            split_call.chunks[k] \in split_call.written

---------------------------------------------------------------------------
(* C28: a dispatcher that returns success made at least one remote segment  *)
(* call that succeeded; with zero segments it does not return success       *)
C28_SuccessHasSegmentCall ==
    (Dispatched /\ pc = "done" /\ outcome = "success") =>
        /\ total_chunks > 0
        /\ \E i \in Segments :
              fut[i].calls = 1 /\ fut[i].st = "done" /\ fut[i].err = NoError

---------------------------------------------------------------------------
\* the probe of a remote job has run and gave no duration: it reported 0, or
\* AudioProcessor() raised and the handler of the probe swallowed it
Unmeasured ==
    /\ IsApiModel(model_name)
    /\ log # <<>>
    /\ log[1].op \in {"probe", "processor"}
    /\ duration <= 0

(* C29: a remote job whose duration could not be measured (the probe gave   *)
(* 0, or building the audio processor raised) neither fails nor chunks at    *)
(* the probe: it goes on to the single-shot path, and the dispatcher is      *)
(* entered afterwards only from the handler of a direct call that was        *)
(* rejected as too large                                                     *)
C29_UnmeasuredGoesSingleShot ==
    /\ [][(pc = "probe" /\ duration' <= 0) =>
            /\ pc' = "single"
            /\ outcome' = "none"
            /\ ~should_chunk'
            /\ chunk_model' = None
            /\ progress' = progress]_vars
    /\ [](Unmeasured =>
            /\ ~should_chunk
            /\ pc = "done" => (Len(RemoteCalls) >= 1 \/ ProcessorIdx # {})
            /\ chunk_model # None =>
                /\ Len(RemoteCalls) >= 1
                /\ RemoteCalls[1].op = "primary"
                /\ MarkedTooLarge(RemoteCalls[1].err)
                /\ \A k \in SplitIdx : \E j \in PrimaryIdx : j < k)

\* the probe gave 0, the direct call was rejected as too large, and the
\* dispatcher then transcribed the audio
C29_Witness ==
    /\ Unmeasured
    /\ duration = 0
    /\ chunk_model # None
    /\ PrimaryTooLarge
    /\ pc = "done"
    /\ outcome = "success"

---------------------------------------------------------------------------
\* how far a remote job has come: the strategies in the order the code can
\* reach them (the retry against whisper-1 and the dispatcher are the two
\* ways out of a failed direct call)
Stage(p) ==
    CASE p = "start" -> 0
      [] p = "probe" -> 1
      [] p = "single" -> 2
      [] p = "compress" -> 3
      [] p = "primary" -> 4
      [] p = "fallback" -> 5
      [] p = "split" -> 5
      [] p = "submit" -> 6
      [] p = "collect" -> 7
      [] p = "shutdown" -> 8
      [] p = "cleanup" -> 9
      [] p = "done" -> 10
      [] OTHER -> 0

(* C30: within one remote job the dispatcher is entered at most once, the   *)
(* retry against whisper-1 is made at most once, no job does both, at most   *)
(* two direct remote calls are made (the configured model once, the retry    *)
(* once), and the job never goes back to a strategy it has left              *)
C30_RecoveryBounded ==
    /\ [](IsApiModel(model_name) =>
            /\ Cardinality(SplitIdx) <= 1
            /\ Cardinality(PrimaryIdx) <= 1
            /\ Cardinality(FallbackIdx) <= 1
            /\ Cardinality(PrimaryIdx \cup FallbackIdx) <= 2
            /\ ~(chunk_model # None /\ FallbackIdx # {})
            /\ pc = "fallback" => chunk_model = None
            /\ \A k \in SplitIdx : \A j \in PrimaryIdx \cup FallbackIdx : j < k)
    /\ [][IsApiModel(model_name) =>
            /\ Stage(pc') >= Stage(pc)
            /\ (Stage(pc') = Stage(pc)) => pc' = pc
            /\ (pc' = "split" /\ pc # "split") => chunk_model = None
            /\ chunk_model # None => chunk_model' = chunk_model]_vars

\* the configured model failed, the retry against whisper-1 failed too, and
\* the job ended there without entering the dispatcher
C30_Witness ==
    /\ pc = "done"
    /\ outcome = "failure"
    /\ Cardinality(PrimaryIdx) = 1
    /\ Cardinality(FallbackIdx) = 1
    /\ FallbackFailed
    /\ chunk_model = None

====
